---- MODULE Spec2Model ----
(***************************************************************************)
(* Model of the FileTransfer server (src/server.py) and client             *)
(* (src/client.py).                                                        *)
(*                                                                         *)
(* Byte strings and text are sequences of one-character strings, so that   *)
(* prefix tests, slicing, joining and decimal formatting are computed the  *)
(* way the Python code computes them.  The character "#" stands for a byte *)
(* that is not valid UTF-8, "!" for the text of an exception message.      *)
(***************************************************************************)
EXTENDS Integers, Sequences, FiniteSets, TLC

\* ------------------------------------------------------------------ bounds
MaxConn == 2            \* connections the model lets the listener accept
BufferSize == 2         \* server chunk size (--buffer), scaled down
ClientBufferSize == 2   \* client chunk size, scaled down
MaxAcceptErrors == 1    \* failed accepts the model lets happen
RecvMax == 1024         \* recv(1024) of the control messages

Conns == 1..MaxConn

\* ------------------------------------------------------- string primitives
Take(s, n) == SubSeq(s, 1, IF n < Len(s) THEN n ELSE Len(s))

Drop(s, n) == SubSeq(s, n + 1, Len(s))

\* str.startswith
StartsWith(s, p) == Len(s) >= Len(p) /\ SubSeq(s, 1, Len(p)) = p

Min(a, b) == IF a < b THEN a ELSE b

\* the protocol's constant strings
S_GET == <<"G", "E", "T", ":">>
S_LIST == <<"L", "I", "S", "T">>
S_READY == <<"R", "E", "A", "D", "Y">>
S_SIZE == <<"S", "I", "Z", "E", ":">>
S_FILES == <<"F", "I", "L", "E", "S", ":">>
S_ERROR == <<"E", "R", "R", "O", "R", ":">>
ERR_INVALID == S_ERROR \o <<"I", "n", "v">>
ERR_DENIED == S_ERROR \o <<"A", "c", "c">>
ERR_NOTFOUND == S_ERROR \o <<"N", "o", "t">>
\* f"ERROR:{str(e)}" of an exception
ERR_EXC == S_ERROR \o <<"!">>

Digits == <<"0", "1", "2", "3", "4", "5", "6", "7", "8", "9">>

\* str(n) of a natural number
RECURSIVE ToDecimal(_)
ToDecimal(n) ==
    IF n < 10 THEN <<Digits[n + 1]>>
    ELSE ToDecimal(n \div 10) \o <<Digits[(n % 10) + 1]>>

IsDigit(ch) == \E i \in 1..10 : Digits[i] = ch

DigitVal(ch) == (CHOOSE i \in 1..10 : Digits[i] = ch) - 1

\* int(s) accepts a non-empty digit string; anything else raises ValueError
IntParses(s) == Len(s) > 0 /\ \A i \in 1..Len(s) : IsDigit(s[i])

RECURSIVE ParseInt(_)
ParseInt(s) ==
    IF Len(s) = 0 THEN 0
    ELSE 10 * ParseInt(SubSeq(s, 1, Len(s) - 1)) + DigitVal(s[Len(s)])

\* bytes.decode(): strict UTF-8, raises on an invalid byte
Decodes(b) == \A i \in 1..Len(b) : b[i] # "#"

\* sep.join(parts)
RECURSIVE Join(_, _)
Join(parts, sep) ==
    IF Len(parts) = 0 THEN <<>>
    ELSE IF Len(parts) = 1 THEN parts[1]
    ELSE parts[1] \o sep \o Join(Tail(parts), sep)

\* s.split(sep) for a one-character separator: never returns an empty list
RECURSIVE Split(_, _)
Split(s, sep) ==
    IF \A i \in 1..Len(s) : s[i] # sep THEN <<s>>
    ELSE LET i == CHOOSE k \in 1..Len(s) :
                     s[k] = sep /\ \A j \in 1..(k - 1) : s[j] # sep
         IN <<SubSeq(s, 1, i - 1)>> \o Split(Drop(s, i), sep)

\* ------------------------------------------------------------ os.path
SLASH == <<"/">>
DOT == <<".">>
DOTDOT == <<".", ".">>

\* os.path.join(a, b) of posixpath
PathJoin(a, b) ==
    IF StartsWith(b, SLASH) THEN b
    ELSE IF Len(a) = 0 \/ a[Len(a)] = "/" THEN a \o b
    ELSE a \o SLASH \o b

\* the component loop of posixpath.normpath
RECURSIVE NormComps(_, _, _)
NormComps(comps, acc, rooted) ==
    IF Len(comps) = 0 THEN acc
    ELSE LET c == Head(comps)
             rest == Tail(comps)
         IN IF c = <<>> \/ c = DOT THEN NormComps(rest, acc, rooted)
            ELSE IF c # DOTDOT
                    \/ (~rooted /\ Len(acc) = 0)
                    \/ (Len(acc) > 0 /\ acc[Len(acc)] = DOTDOT)
                 THEN NormComps(rest, Append(acc, c), rooted)
            ELSE IF Len(acc) > 0
                 THEN NormComps(rest, SubSeq(acc, 1, Len(acc) - 1), rooted)
            ELSE NormComps(rest, acc, rooted)

\* number of slashes normpath keeps in front: 0, 1, or 2 for exactly "//"
InitialSlashes(path) ==
    IF ~StartsWith(path, SLASH) THEN 0
    ELSE IF StartsWith(path, <<"/", "/">>) /\ ~StartsWith(path, <<"/", "/", "/">>)
         THEN 2
    ELSE 1

\* os.path.normpath(path) of posixpath
NormPath(path) ==
    IF Len(path) = 0 THEN DOT
    ELSE LET n == InitialSlashes(path)
             body == Join(NormComps(Split(path, "/"), <<>>, n > 0), SLASH)
             res == (IF n = 2 THEN <<"/", "/">> ELSE IF n = 1 THEN SLASH ELSE <<>>)
                        \o body
         IN IF Len(res) = 0 THEN DOT ELSE res

\* the traversal check of send_file: TRUE when the request is let through
PathAllowed(dir, filename) ==
    StartsWith(NormPath(PathJoin(dir, filename)), NormPath(dir))

\* --------------------------------------------------------- the file system
\* The served tree is read-only.  A node is the sequence of its component
\* names from "/"; the server process runs in /s.
N_s == <<"s">>
N_s2 == <<"s", "2">>
N_a == <<"a">>
N_b == <<"b">>
N_d == <<"d">>
N_e == <<"e">>
N_k == <<"k">>
N_p == <<"p">>
N_m == <<"m">>

Cwd == <<N_s>>

Dirs == { <<>>, <<N_s>>, <<N_s, N_d>>, <<N_s2>>, <<N_s2, N_m>> }

\* directory entries in the order os.listdir returns them
DirEntries(node) ==
    IF node = <<>> THEN <<N_p, N_s, N_s2>>
    ELSE IF node = <<N_s>> THEN <<N_b, N_d, N_a>>
    ELSE IF node = <<N_s, N_d>> THEN <<N_e>>
    ELSE IF node = <<N_s2>> THEN <<N_k, N_m>>
    ELSE <<>>

Files == { <<N_s, N_a>>, <<N_s, N_b>>, <<N_s, N_d, N_e>>, <<N_s2, N_k>>, <<N_p>> }

\* the bytes of a regular file
Content(node) ==
    IF node = <<N_s, N_a>> THEN <<"x", "y", "z">>
    ELSE IF node = <<N_s, N_b>> THEN <<>>
    ELSE IF node = <<N_s, N_d, N_e>> THEN <<"w">>
    ELSE IF node = <<N_s2, N_k>> THEN <<"q">>
    ELSE <<"r">>

NoNode == <<<<"?">>>>

\* the kernel's path walk: every component but the last must be a directory
RECURSIVE Walk(_, _)
Walk(comps, cur) ==
    IF cur = NoNode THEN NoNode
    ELSE IF Len(comps) = 0 THEN cur
    ELSE LET c == Head(comps)
         IN IF cur \notin Dirs THEN NoNode
            ELSE IF c = <<>> \/ c = DOT THEN Walk(Tail(comps), cur)
            ELSE IF c = DOTDOT
                 THEN Walk(Tail(comps),
                           IF Len(cur) = 0 THEN cur ELSE SubSeq(cur, 1, Len(cur) - 1))
            ELSE IF Append(cur, c) \in Dirs \cup Files
                 THEN Walk(Tail(comps), Append(cur, c))
            ELSE NoNode

\* the node a path names, NoNode when the path does not exist
Lookup(path) ==
    IF Len(path) = 0 THEN NoNode
    ELSE Walk(Split(path, "/"), IF StartsWith(path, SLASH) THEN <<>> ELSE Cwd)

\* os.path.exists
PathExists(path) == Lookup(path) # NoNode

\* os.path.isfile
IsFile(path) == Lookup(path) \in Files

\* os.path.getsize: st_size; a directory has a size too
DirSize == 7

GetSize(path) == IF Lookup(path) \in Files THEN Len(Content(Lookup(path))) ELSE DirSize

\* ------------------------------------------------------ the workload
N_z == <<"z">>

\* file names the clients ask for: a file, the empty file, a directory, a
\* missing name, a file of a subdirectory, a sibling of the root, an
\* absolute path, the empty name
FileNames ==
    { N_a, N_b, N_d, N_z,
      <<"d", "/", "e">>,
      <<".", ".", "/", "s", "2", "/", "k">>,
      <<"/", "p">>,
      <<>> }

\* values of --dir: both name the directory /s
Roots == { <<"/", "s">>, DOT }

JUNK == <<"L", "I", "S", "T", "X">>

\* what a peer that is not client.py sends first, and second
RawRequests == { S_GET \o N_a, S_GET \o N_d, JUNK, <<"#">> }

RawReplies == { S_READY, <<"N", "O">> }

\* ------------------------------------------------------------------ state
VARIABLES
    directory,           \* self.directory
    running,             \* self.running
    listening,           \* the listening socket is open
    active_connections,  \* self.active_connections
    acc_pc,              \* position of the accept loop
    acc_tmp,             \* value the accept loop loaded for += 1
    acc_conn,            \* connection the accept loop holds
    pc,                  \* position of each handler thread
    request,             \* handle_client: request, as received
    response,            \* send_file: response
    raised,              \* the exception the handler caught, "none" if none
    filepath,            \* send_file: filepath
    file_size,           \* send_file: file_size
    file_pos,            \* position of the handler's open file object
    bytes_sent,          \* send_file: bytes_sent
    dec_tmp,             \* value a handler loaded for -= 1
    c2s,                 \* bytes in flight, client to server
    s2c,                 \* bytes in flight, server to client
    srv_closed,          \* the server side of the connection is closed
    cli_closed,          \* the peer side of the connection is closed
    kind,                \* what the peer runs: "get", "list", "raw"
    cpc,                 \* position of the peer
    c_filename,          \* request_file: filename
    c_file_size,         \* request_file: file_size
    received,            \* request_file: bytes written to save_as
    result,              \* request_file: return value
    c_files,             \* list_files: files
    accept_errors,       \* "Error accepting connection" lines in the log
    now,                 \* the clock time.time() reads
    start_time,          \* send_file: start_time
    duration,            \* send_file: duration
    transfer_rate,       \* send_file: transfer_rate, as logged
    c_start_time,        \* request_file: start_time
    c_duration,          \* request_file: duration
    c_transfer_rate,     \* request_file: transfer_rate, as printed
    sent,                \* messages each handler has handed to the socket
    decrements           \* times each handler ran active_connections -= 1

srvVars == <<directory, running, listening, active_connections, acc_pc, acc_tmp, acc_conn>>

hVars == <<pc, request, response, raised, filepath, file_size, file_pos, bytes_sent, dec_tmp>>

sockVars == <<c2s, s2c, srv_closed, cli_closed>>

cliVars == <<kind, cpc, c_filename, c_file_size, received, result, c_files>>

ghostVars == <<sent, decrements>>

sTimeVars == <<start_time, duration, transfer_rate>>

cTimeVars == <<c_start_time, c_duration, c_transfer_rate>>

timeVars == <<now, sTimeVars, cTimeVars>>

vars == <<srvVars, hVars, sockVars, cliVars, ghostVars, timeVars, accept_errors>>

\* a rate is the exact quotient num / den; den = 0 is a division by zero
Ratio(n) == [num |-> n, den |-> 1]

Div(q, n) == [num |-> q.num, den |-> q.den * n]

ZeroRate == Ratio(0)

\* value of transfer_rate before it is computed
NoRate == [num |-> 0 - 1, den |-> 1]

\* a transfer rate that divides whatever the duration is
TransferRate_NoGuard(size, dur) == Div(Div(Div(Ratio(size), 1024), 1024), dur)

\* server.py line 138, client.py line 60:
\* (file_size / 1024 / 1024) / duration if duration > 0 else 0
TransferRate(size, dur) ==
    IF dur > 0 THEN Div(Div(Div(Ratio(size), 1024), 1024), dur) ELSE ZeroRate

\* value of a local variable that has not been assigned
NotRead == <<"~">>

InitIn(roots) ==
    /\ directory \in roots
    /\ running = TRUE
    /\ listening = TRUE
    /\ active_connections = 0
    /\ acc_pc = "accept"
    /\ acc_tmp = 0
    /\ acc_conn = 0
    /\ pc = [c \in Conns |-> "none"]
    /\ request = [c \in Conns |-> NotRead]
    /\ response = [c \in Conns |-> NotRead]
    /\ raised = [c \in Conns |-> "none"]
    /\ filepath = [c \in Conns |-> <<>>]
    /\ file_size = [c \in Conns |-> 0]
    /\ file_pos = [c \in Conns |-> 0]
    /\ bytes_sent = [c \in Conns |-> 0]
    /\ dec_tmp = [c \in Conns |-> 0]
    /\ c2s = [c \in Conns |-> <<>>]
    /\ s2c = [c \in Conns |-> <<>>]
    /\ srv_closed = [c \in Conns |-> FALSE]
    /\ cli_closed = [c \in Conns |-> FALSE]
    /\ kind = [c \in Conns |-> "none"]
    /\ cpc = [c \in Conns |-> "init"]
    /\ c_filename = [c \in Conns |-> <<>>]
    /\ c_file_size = [c \in Conns |-> 0]
    /\ received = [c \in Conns |-> <<>>]
    /\ result = [c \in Conns |-> "none"]
    /\ c_files = [c \in Conns |-> <<>>]
    /\ accept_errors = 0
    /\ now = 0
    /\ start_time = [c \in Conns |-> 0]
    /\ duration = [c \in Conns |-> 0]
    /\ transfer_rate = [c \in Conns |-> NoRate]
    /\ c_start_time = [c \in Conns |-> 0]
    /\ c_duration = [c \in Conns |-> 0]
    /\ c_transfer_rate = [c \in Conns |-> NoRate]
    /\ sent = [c \in Conns |-> <<>>]
    /\ decrements = [c \in Conns |-> 0]

Init == InitIn(Roots)

\* ------------------------------------------------------------- the sockets
\* A send to a peer that is still open is queued.  A send to a peer that has
\* closed either is accepted by the kernel and lost, or raises.
SendOutcomes(c) == IF cli_closed[c] THEN {TRUE, FALSE} ELSE {TRUE}

\* a send that reaches every open connection
Delivered_Broadcast(c, msgs) ==
    [d \in Conns |-> IF cli_closed[d] THEN s2c[d] ELSE s2c[d] \o Join(msgs, <<>>)]

\* the server-to-client stream after the handler sent msgs on connection c
Delivered(c, msgs) ==
    IF cli_closed[c] THEN s2c
    ELSE [s2c EXCEPT ![c] = @ \o Join(msgs, <<>>)]

\* connections are numbered in the order the peers connect
CanConnect(c) ==
    /\ listening
    /\ cpc[c] = "init"
    /\ \A d \in Conns : d < c => cpc[d] # "init"

\* ------------------------------------------------------- the accept loop
\* start, line 43 and the load of line 44: accept returns the oldest pending
\* connection
AcceptLoad(c) ==
    /\ acc_pc = "accept"
    /\ listening
    /\ cpc[c] # "init"
    /\ pc[c] = "none"
    /\ \A d \in Conns : d < c => pc[d] # "none"
    /\ acc_tmp' = active_connections
    /\ acc_conn' = c
    /\ acc_pc' = "store"
    /\ UNCHANGED <<directory, running, listening, active_connections>>
    /\ UNCHANGED <<hVars, sockVars, cliVars, ghostVars>>
    /\ UNCHANGED timeVars
    /\ UNCHANGED accept_errors

\* an accept loop that goes on whatever running is
LoopTest_Forever(run) == "accept"

\* start, line 41: while self.running
LoopTest(run) == IF run THEN "accept" ELSE "stopped"

\* start, the store of line 44, the thread start of lines 48-53 and the loop
\* test of line 41
AcceptStore ==
    /\ acc_pc = "store"
    /\ active_connections' = acc_tmp + 1
    /\ pc' = [pc EXCEPT ![acc_conn] = "recv_request"]
    /\ acc_pc' = LoopTest(running)
    /\ UNCHANGED <<directory, running, listening, acc_tmp, acc_conn>>
    /\ UNCHANGED <<request, response, raised, filepath, file_size, file_pos, bytes_sent, dec_tmp>>
    /\ UNCHANGED <<sockVars, cliVars, ghostVars>>
    /\ UNCHANGED timeVars
    /\ UNCHANGED accept_errors

\* stop: running cleared, the listening socket closed; connections still in
\* the backlog are reset
Stop ==
    /\ running
    /\ running' = FALSE
    /\ listening' = FALSE
    /\ srv_closed' = [c \in Conns |->
                         IF cpc[c] # "init" /\ pc[c] = "none" /\ ~(acc_pc = "store" /\ acc_conn = c)
                         THEN TRUE ELSE srv_closed[c]]
    /\ UNCHANGED <<directory, active_connections, acc_pc, acc_tmp, acc_conn>>
    /\ UNCHANGED <<c2s, s2c, cli_closed>>
    /\ UNCHANGED <<hVars, cliVars, ghostVars>>
    /\ UNCHANGED timeVars
    /\ UNCHANGED accept_errors

\* start, lines 54-60: accept fails on the closed socket, running is false,
\* the loop ends and stop() runs again
AcceptExit ==
    /\ acc_pc = "accept"
    /\ ~listening
    /\ acc_pc' = LoopTest(running)
    /\ UNCHANGED <<directory, running, listening, active_connections, acc_tmp, acc_conn>>
    /\ UNCHANGED <<hVars, sockVars, cliVars, ghostVars>>
    /\ UNCHANGED timeVars
    /\ UNCHANGED accept_errors

\* start, lines 43 and 54-56: accept raises while the server is running (no
\* descriptor left, a connection aborted in the backlog); the error is
\* logged and the loop test of line 41 follows
AcceptError ==
    /\ acc_pc = "accept"
    /\ listening /\ running
    /\ accept_errors < MaxAcceptErrors
    /\ accept_errors' = accept_errors + 1
    /\ acc_pc' = LoopTest(running)
    /\ UNCHANGED <<directory, running, listening, active_connections, acc_tmp, acc_conn>>
    /\ UNCHANGED <<hVars, sockVars, cliVars, ghostVars>>
    /\ UNCHANGED timeVars

LiveHandler(c) == pc[c] \notin {"none", "done", "killed"}

\* main returns after start(): the process ends, its daemon handler threads
\* (line 52) die where they are and the kernel closes their sockets
ProcessExit ==
    /\ acc_pc = "stopped"
    /\ acc_pc' = "exited"
    /\ pc' = [c \in Conns |-> IF LiveHandler(c) THEN "killed" ELSE pc[c]]
    /\ srv_closed' = [c \in Conns |-> IF LiveHandler(c) THEN TRUE ELSE srv_closed[c]]
    /\ UNCHANGED <<directory, running, listening, active_connections, acc_tmp, acc_conn>>
    /\ UNCHANGED <<request, response, raised, filepath, file_size, file_pos, bytes_sent, dec_tmp>>
    /\ UNCHANGED <<c2s, s2c, cli_closed>>
    /\ UNCHANGED <<cliVars, ghostVars>>
    /\ UNCHANGED timeVars
    /\ UNCHANGED accept_errors

\* ---------------------------------------------------------- the handler
\* a listing without the isfile filter
ListFiles_NoFilter(dir) == DirEntries(Lookup(dir))

\* list_files, lines 153-154: the regular files directly under the root
ListFiles(dir) ==
    LET Regular(f) == IsFile(PathJoin(dir, f))
    IN SelectSeq(DirEntries(Lookup(dir)), Regular)

\* an exception handler that sends nothing
BestEffortError_Silent(ok2) == <<>>

\* send_file, lines 143-148: one attempt to send ERROR:<message>; when that
\* send fails too, the failure is dropped
BestEffortError(ok2) == IF ok2 THEN <<ERR_EXC>> ELSE <<>>

\* the message of a send and, when it raised inside a try of send_file or
\* list_files, of the best-effort ERROR send of the except clause
Guarded(msg, ok, ok2) ==
    IF ok THEN <<msg>> ELSE BestEffortError(ok2)

\* list_files, lines 152-164
ListReply(dir, ok, ok2) ==
    [ msgs |-> Guarded(S_FILES \o Join(ListFiles(dir), <<",">>), ok, ok2),
      exc |-> IF ok THEN "none" ELSE "send",
      next |-> "finally", path |-> <<>>, size |-> 0 ]

\* send_file, lines 99-115: up to and including the SIZE response
SendFileHead(dir, filename, ok, ok2) ==
    LET fp == PathJoin(dir, filename)
    IN IF ~PathAllowed(dir, filename)
       THEN [ msgs |-> IF ok THEN <<ERR_DENIED>> ELSE <<>>,
              exc |-> IF ok THEN "none" ELSE "send",
              next |-> "finally", path |-> fp, size |-> 0 ]
       ELSE IF ~PathExists(fp)
       THEN [ msgs |-> Guarded(ERR_NOTFOUND, ok, ok2),
              exc |-> IF ok THEN "none" ELSE "send",
              next |-> "finally", path |-> fp, size |-> 0 ]
       ELSE [ msgs |-> Guarded(S_SIZE \o ToDecimal(GetSize(fp)), ok, ok2),
              exc |-> IF ok THEN "none" ELSE "send",
              next |-> IF ok THEN "await_ready" ELSE "finally",
              path |-> fp, size |-> GetSize(fp) ]

\* handle_client, lines 77-88: decode and dispatch of one request
ServeRequest(dir, req, ok, ok2) ==
    IF ~Decodes(req)
    THEN [ msgs |-> <<>>, exc |-> "decode",
           next |-> "finally", path |-> <<>>, size |-> 0 ]
    ELSE IF StartsWith(req, S_GET)
    THEN SendFileHead(dir, Drop(req, 4), ok, ok2)
    ELSE IF req = S_LIST
    THEN ListReply(dir, ok, ok2)
    ELSE [ msgs |-> IF ok THEN <<ERR_INVALID>> ELSE <<>>,
           exc |-> IF ok THEN "none" ELSE "send",
           next |-> "finally", path |-> <<>>, size |-> 0 ]

\* handle_client, line 77 onwards: the request read returns (the empty
\* string when the peer has closed) and the request is served up to its
\* first response
HandleRequest(c) ==
    /\ pc[c] = "recv_request"
    /\ Len(c2s[c]) > 0 \/ cli_closed[c]
    /\ \E ok \in SendOutcomes(c), ok2 \in SendOutcomes(c) :
         LET r == ServeRequest(directory, Take(c2s[c], RecvMax), ok, ok2)
         IN /\ pc' = [pc EXCEPT ![c] = r.next]
            /\ raised' = [raised EXCEPT ![c] = r.exc]
            /\ filepath' = [filepath EXCEPT ![c] = r.path]
            /\ file_size' = [file_size EXCEPT ![c] = r.size]
            /\ s2c' = Delivered(c, r.msgs)
            /\ sent' = [sent EXCEPT ![c] = @ \o r.msgs]
    /\ request' = [request EXCEPT ![c] = Take(c2s[c], RecvMax)]
    /\ c2s' = [c2s EXCEPT ![c] = Drop(@, RecvMax)]
    /\ UNCHANGED <<response, file_pos, bytes_sent, dec_tmp, srv_closed, cli_closed, decrements>>
    /\ UNCHANGED <<srvVars, cliVars>>
    /\ UNCHANGED timeVars
    /\ UNCHANGED accept_errors

\* a handler that streams whatever the client answered
ReadyOk_Always(resp) == TRUE

\* a READY check that only rejects the empty read
ReadyOk_NonEmpty(resp) == Len(resp) > 0

\* send_file, line 119
ReadyOk(resp) == resp = S_READY

\* a return on the not-READY path that leaves the handler without its cleanup
AfterReady_SkipsFinally(resp, path) ==
    IF ~(resp = S_READY) THEN "done"
    ELSE IF IsFile(path) THEN "streaming"
    ELSE "open_failed"

\* where send_file goes after the READY read: line 120 returns into the
\* finally clause of handle_client, line 127 opens the file
AfterReady(resp, path) ==
    IF ~ReadyOk(resp) THEN "finally"
    ELSE IF IsFile(path) THEN "streaming"
    ELSE "open_failed"

\* send_file, lines 118-127: the READY read returns
RecvReady(c) ==
    /\ pc[c] = "await_ready"
    /\ Len(c2s[c]) > 0 \/ cli_closed[c]
    /\ \E ok2 \in SendOutcomes(c) :
         LET nxt == AfterReady(Take(c2s[c], RecvMax), filepath[c])
             msgs == IF nxt = "open_failed" THEN BestEffortError(ok2) ELSE <<>>
         IN /\ pc' = [pc EXCEPT ![c] = IF nxt = "open_failed" THEN "finally" ELSE nxt]
            /\ raised' = [raised EXCEPT ![c] = IF nxt = "open_failed" THEN "open" ELSE "none"]
            /\ s2c' = Delivered(c, msgs)
            /\ sent' = [sent EXCEPT ![c] = @ \o msgs]
    /\ response' = [response EXCEPT ![c] = Take(c2s[c], RecvMax)]
    /\ start_time' = IF ReadyOk(Take(c2s[c], RecvMax))
                     THEN [start_time EXCEPT ![c] = now] ELSE start_time
    /\ c2s' = [c2s EXCEPT ![c] = Drop(@, RecvMax)]
    /\ file_pos' = [file_pos EXCEPT ![c] = 0]
    /\ bytes_sent' = [bytes_sent EXCEPT ![c] = 0]
    /\ UNCHANGED <<request, filepath, file_size, dec_tmp, srv_closed, cli_closed, decrements>>
    /\ UNCHANGED <<srvVars, cliVars>>
    /\ UNCHANGED <<now, duration, transfer_rate, cTimeVars>>
    /\ UNCHANGED accept_errors

\* a timeout that is set for the request read alone
TimedRecv_RequestOnly(state) == state = "recv_request"

\* handle_client, line 76: settimeout(60) is set on the connection before the
\* first read, so it ends the request read (line 77) and the READY read
\* (line 118) alike
TimedRecv(state) == state \in {"recv_request", "await_ready"}

\* settimeout(60), line 76: a read on which the peer stays silent raises
\* socket.timeout; line 87 swallows it, line 143 answers with ERROR
RecvTimeout(c) ==
    /\ TimedRecv(pc[c])
    /\ Len(c2s[c]) = 0
    /\ ~cli_closed[c]
    /\ LET msgs == IF pc[c] = "await_ready" THEN <<ERR_EXC>> ELSE <<>>
       IN /\ s2c' = Delivered(c, msgs)
          /\ sent' = [sent EXCEPT ![c] = @ \o msgs]
    /\ pc' = [pc EXCEPT ![c] = "finally"]
    /\ raised' = [raised EXCEPT ![c] = "timeout"]
    /\ UNCHANGED <<request, response, filepath, file_size, file_pos, bytes_sent, dec_tmp>>
    /\ UNCHANGED <<c2s, srv_closed, cli_closed, decrements>>
    /\ UNCHANGED <<srvVars, cliVars>>
    /\ UNCHANGED timeVars
    /\ UNCHANGED accept_errors

\* a read that loses the last byte of the file
ReadChunk_DropsTail(content, pos) ==
    SubSeq(content, pos + 1, Min(pos + BufferSize, Len(content) - 1))

\* file.read(self.buffer_size), line 129
ReadChunk(content, pos) ==
    SubSeq(content, pos + 1, Min(pos + BufferSize, Len(content)))

\* one file object shared by all handlers: a read moves every position
AdvanceFile_Shared(fp, c, n) == [d \in Conns |-> fp[d] + n]

\* the positions of the open file objects after handler c read n bytes
AdvanceFile(fp, c, n) == [fp EXCEPT ![c] = @ + n]

\* send_file, line 132: sendall returns once the transport has taken the
\* whole chunk; it has room for it when the peer has read what was sent
\* before, and a closed peer never makes it wait
CanSend(c) == Len(s2c[c]) = 0 \/ cli_closed[c]

\* send_file, lines 128-133 and 143-148: one turn of the streaming loop
StreamChunk(c) ==
    /\ pc[c] = "streaming"
    /\ LET data == ReadChunk(Content(Lookup(filepath[c])), file_pos[c])
       IN IF Len(data) = 0
          THEN /\ pc' = [pc EXCEPT ![c] = "finally"]
               /\ duration' = [duration EXCEPT ![c] = now - start_time[c]]
               /\ transfer_rate' = [transfer_rate EXCEPT ![c] =
                                        TransferRate(file_size[c], now - start_time[c])]
               /\ UNCHANGED <<file_pos, bytes_sent, s2c, sent, raised>>
          ELSE \E ok \in SendOutcomes(c), ok2 \in SendOutcomes(c) :
                 /\ CanSend(c)
                 /\ UNCHANGED <<duration, transfer_rate>>
                 /\ file_pos' = AdvanceFile(file_pos, c, Len(data))
                 /\ IF ok
                    THEN /\ s2c' = Delivered(c, <<data>>)
                         /\ sent' = [sent EXCEPT ![c] = Append(@, data)]
                         /\ bytes_sent' = [bytes_sent EXCEPT ![c] = @ + Len(data)]
                         /\ UNCHANGED <<pc, raised>>
                    ELSE /\ s2c' = Delivered(c, BestEffortError(ok2))
                         /\ sent' = [sent EXCEPT ![c] = @ \o BestEffortError(ok2)]
                         /\ pc' = [pc EXCEPT ![c] = "finally"]
                         /\ raised' = [raised EXCEPT ![c] = "send"]
                         /\ UNCHANGED bytes_sent
    /\ UNCHANGED <<request, response, filepath, file_size, dec_tmp>>
    /\ UNCHANGED <<c2s, srv_closed, cli_closed, decrements>>
    /\ UNCHANGED <<srvVars, cliVars>>
    /\ UNCHANGED <<now, start_time, cTimeVars>>
    /\ UNCHANGED accept_errors

\* send_file, lines 132 and 143-148: the peer does not read, sendall waits
\* and the timeout of line 76 ends it; the ERROR send that follows waits in the
\* same way and goes through only if the peer reads again
SendTimeout(c) ==
    /\ pc[c] = "streaming"
    /\ Len(ReadChunk(Content(Lookup(filepath[c])), file_pos[c])) > 0
    /\ ~CanSend(c)
    /\ \E ok2 \in BOOLEAN :
         /\ s2c' = Delivered(c, BestEffortError(ok2))
         /\ sent' = [sent EXCEPT ![c] = @ \o BestEffortError(ok2)]
    /\ file_pos' = AdvanceFile(file_pos, c,
                       Len(ReadChunk(Content(Lookup(filepath[c])), file_pos[c])))
    /\ pc' = [pc EXCEPT ![c] = "finally"]
    /\ raised' = [raised EXCEPT ![c] = "send_timeout"]
    /\ UNCHANGED <<request, response, filepath, file_size, bytes_sent, dec_tmp>>
    /\ UNCHANGED <<c2s, srv_closed, cli_closed, decrements>>
    /\ UNCHANGED <<srvVars, cliVars>>
    /\ UNCHANGED timeVars
    /\ UNCHANGED accept_errors

\* send_file, lines 129 and 143-148: the file read raises OSError
StreamReadError(c) ==
    /\ pc[c] = "streaming"
    /\ \E ok2 \in SendOutcomes(c) :
         LET msgs == BestEffortError(ok2)
         IN /\ s2c' = Delivered(c, msgs)
            /\ sent' = [sent EXCEPT ![c] = @ \o msgs]
    /\ pc' = [pc EXCEPT ![c] = "finally"]
    /\ raised' = [raised EXCEPT ![c] = "read"]
    /\ UNCHANGED <<request, response, filepath, file_size, file_pos, bytes_sent, dec_tmp>>
    /\ UNCHANGED <<c2s, srv_closed, cli_closed, decrements>>
    /\ UNCHANGED <<srvVars, cliVars>>
    /\ UNCHANGED timeVars
    /\ UNCHANGED accept_errors

\* handle_client, lines 89-94: close and the load of the -= 1
HandlerClose(c) ==
    /\ pc[c] = "finally"
    /\ srv_closed' = [srv_closed EXCEPT ![c] = TRUE]
    /\ dec_tmp' = [dec_tmp EXCEPT ![c] = active_connections]
    /\ pc' = [pc EXCEPT ![c] = "dec_store"]
    /\ UNCHANGED <<request, response, raised, filepath, file_size, file_pos, bytes_sent>>
    /\ UNCHANGED <<c2s, s2c, cli_closed>>
    /\ UNCHANGED <<srvVars, cliVars, ghostVars>>
    /\ UNCHANGED timeVars
    /\ UNCHANGED accept_errors

\* handle_client, line 94: the store of the -= 1
HandlerDecStore(c) ==
    /\ pc[c] = "dec_store"
    /\ active_connections' = dec_tmp[c] - 1
    /\ decrements' = [decrements EXCEPT ![c] = @ + 1]
    /\ pc' = [pc EXCEPT ![c] = "done"]
    /\ UNCHANGED <<directory, running, listening, acc_pc, acc_tmp, acc_conn>>
    /\ UNCHANGED <<request, response, raised, filepath, file_size, file_pos, bytes_sent, dec_tmp>>
    /\ UNCHANGED <<sockVars, cliVars, sent>>
    /\ UNCHANGED timeVars
    /\ UNCHANGED accept_errors

\* ------------------------------------------------------------ the client
ListRecvMax == 8192     \* recv(8192) of list_files

\* request_file, lines 58-65: what it returns once the receive loop is left
ResultAfterLoop(bytes_received, size) == "True"

\* request_file, lines 20-27: connect and send the request
ClientGetStart(c, name) ==
    /\ CanConnect(c)
    /\ kind' = [kind EXCEPT ![c] = "get"]
    /\ c_filename' = [c_filename EXCEPT ![c] = name]
    /\ c2s' = [c2s EXCEPT ![c] = S_GET \o name]
    /\ cpc' = [cpc EXCEPT ![c] = "wait_size"]
    /\ UNCHANGED <<c_file_size, received, result, c_files>>
    /\ UNCHANGED <<s2c, srv_closed, cli_closed>>
    /\ UNCHANGED <<srvVars, hVars, ghostVars>>
    /\ UNCHANGED timeVars
    /\ UNCHANGED accept_errors

\* request_file, lines 29-50: the response read returns
ClientGetResponse(c) ==
    /\ cpc[c] = "wait_size"
    /\ Len(s2c[c]) > 0 \/ srv_closed[c]
    /\ LET reply == Take(s2c[c], RecvMax)
           size == ParseInt(Drop(reply, 5))
           ready == /\ ~StartsWith(reply, S_ERROR)
                    /\ StartsWith(reply, S_SIZE)
                    /\ IntParses(Drop(reply, 5))
       IN IF ready
          THEN /\ c_file_size' = [c_file_size EXCEPT ![c] = size]
               /\ c2s' = [c2s EXCEPT ![c] = @ \o S_READY]
               /\ c_start_time' = [c_start_time EXCEPT ![c] = now]
               /\ IF size > 0
                  THEN /\ cpc' = [cpc EXCEPT ![c] = "receiving"]
                       /\ UNCHANGED <<result, cli_closed, c_duration, c_transfer_rate>>
                  ELSE /\ cpc' = [cpc EXCEPT ![c] = "done"]
                       /\ c_duration' = [c_duration EXCEPT ![c] = now - now]
                       /\ c_transfer_rate' = [c_transfer_rate EXCEPT ![c] =
                                                  TransferRate(size, now - now)]
                       /\ result' = [result EXCEPT ![c] = ResultAfterLoop(0, size)]
                       /\ cli_closed' = [cli_closed EXCEPT ![c] = TRUE]
          ELSE /\ cpc' = [cpc EXCEPT ![c] = "done"]
               /\ result' = [result EXCEPT ![c] = "False"]
               /\ cli_closed' = [cli_closed EXCEPT ![c] = TRUE]
               /\ UNCHANGED <<c_file_size, c2s, cTimeVars>>
    /\ s2c' = [s2c EXCEPT ![c] = Drop(@, RecvMax)]
    /\ UNCHANGED <<kind, c_filename, received, c_files, srv_closed>>
    /\ UNCHANGED <<srvVars, hVars, ghostVars>>
    /\ UNCHANGED <<now, sTimeVars>>
    /\ UNCHANGED accept_errors

\* request_file, lines 50-56: one turn of the receive loop that reads data;
\* recv returns between one byte and a full buffer
ClientRecvChunk(c) ==
    /\ cpc[c] = "receiving"
    /\ Len(s2c[c]) > 0
    /\ \E k \in 1..Min(Len(s2c[c]), ClientBufferSize) :
         LET got == received[c] \o Take(s2c[c], k)
         IN /\ received' = [received EXCEPT ![c] = got]
            /\ s2c' = [s2c EXCEPT ![c] = Drop(@, k)]
            /\ IF Len(got) < c_file_size[c]
               THEN UNCHANGED <<cpc, result, cli_closed, c_duration, c_transfer_rate>>
               ELSE /\ cpc' = [cpc EXCEPT ![c] = "done"]
                    /\ c_duration' = [c_duration EXCEPT ![c] = now - c_start_time[c]]
                    /\ c_transfer_rate' = [c_transfer_rate EXCEPT ![c] =
                           TransferRate(c_file_size[c], now - c_start_time[c])]
                    /\ result' = [result EXCEPT ![c] = ResultAfterLoop(Len(got), c_file_size[c])]
                    /\ cli_closed' = [cli_closed EXCEPT ![c] = TRUE]
    /\ UNCHANGED <<kind, c_filename, c_file_size, c_files, c2s, srv_closed>>
    /\ UNCHANGED <<srvVars, hVars, ghostVars>>
    /\ UNCHANGED <<now, sTimeVars, c_start_time>>
    /\ UNCHANGED accept_errors

\* request_file, lines 51-53: recv returns no data, the stream has ended
ClientRecvEof(c) ==
    /\ cpc[c] = "receiving"
    /\ Len(s2c[c]) = 0
    /\ srv_closed[c]
    /\ cpc' = [cpc EXCEPT ![c] = "done"]
    /\ c_duration' = [c_duration EXCEPT ![c] = now - c_start_time[c]]
    /\ c_transfer_rate' = [c_transfer_rate EXCEPT ![c] =
           TransferRate(c_file_size[c], now - c_start_time[c])]
    /\ result' = [result EXCEPT ![c] = ResultAfterLoop(Len(received[c]), c_file_size[c])]
    /\ cli_closed' = [cli_closed EXCEPT ![c] = TRUE]
    /\ UNCHANGED <<kind, c_filename, c_file_size, received, c_files>>
    /\ UNCHANGED <<c2s, s2c, srv_closed>>
    /\ UNCHANGED <<srvVars, hVars, ghostVars>>
    /\ UNCHANGED <<now, sTimeVars, c_start_time>>
    /\ UNCHANGED accept_errors

\* list_files of the client, lines 79-83
ClientListStart(c) ==
    /\ CanConnect(c)
    /\ kind' = [kind EXCEPT ![c] = "list"]
    /\ c2s' = [c2s EXCEPT ![c] = S_LIST]
    /\ cpc' = [cpc EXCEPT ![c] = "wait_list"]
    /\ UNCHANGED <<c_filename, c_file_size, received, result, c_files>>
    /\ UNCHANGED <<s2c, srv_closed, cli_closed>>
    /\ UNCHANGED <<srvVars, hVars, ghostVars>>
    /\ UNCHANGED timeVars
    /\ UNCHANGED accept_errors

\* list_files of the client, lines 85-96
ClientListResponse(c) ==
    /\ cpc[c] = "wait_list"
    /\ Len(s2c[c]) > 0 \/ srv_closed[c]
    /\ LET reply == Take(s2c[c], ListRecvMax)
       IN IF StartsWith(reply, S_FILES)
          THEN /\ c_files' = [c_files EXCEPT ![c] = Split(Drop(reply, 6), ",")]
               /\ result' = [result EXCEPT ![c] = "listed"]
          ELSE /\ result' = [result EXCEPT ![c] = "error"]
               /\ UNCHANGED c_files
    /\ s2c' = [s2c EXCEPT ![c] = Drop(@, ListRecvMax)]
    /\ cpc' = [cpc EXCEPT ![c] = "done"]
    /\ cli_closed' = [cli_closed EXCEPT ![c] = TRUE]
    /\ UNCHANGED <<kind, c_filename, c_file_size, received, c2s, srv_closed>>
    /\ UNCHANGED <<srvVars, hVars, ghostVars>>
    /\ UNCHANGED timeVars
    /\ UNCHANGED accept_errors

\* ------------------------------------------- a peer that is not client.py
\* it connects, sends up to two messages without reading, and may close at
\* any moment
RawConnect(c) ==
    /\ CanConnect(c)
    /\ kind' = [kind EXCEPT ![c] = "raw"]
    /\ cpc' = [cpc EXCEPT ![c] = "raw0"]
    /\ UNCHANGED <<c_filename, c_file_size, received, result, c_files>>
    /\ UNCHANGED <<srvVars, hVars, sockVars, ghostVars>>
    /\ UNCHANGED timeVars
    /\ UNCHANGED accept_errors

RawSend(c, m) ==
    /\ ~cli_closed[c]
    /\ \/ cpc[c] = "raw0" /\ m \in RawRequests /\ cpc' = [cpc EXCEPT ![c] = "raw1"]
       \/ cpc[c] = "raw1" /\ m \in RawReplies /\ cpc' = [cpc EXCEPT ![c] = "raw2"]
    /\ c2s' = [c2s EXCEPT ![c] = @ \o m]
    /\ UNCHANGED <<kind, c_filename, c_file_size, received, result, c_files>>
    /\ UNCHANGED <<s2c, srv_closed, cli_closed>>
    /\ UNCHANGED <<srvVars, hVars, ghostVars>>
    /\ UNCHANGED timeVars
    /\ UNCHANGED accept_errors

RawClose(c) ==
    /\ kind[c] = "raw"
    /\ ~cli_closed[c]
    /\ cli_closed' = [cli_closed EXCEPT ![c] = TRUE]
    /\ cpc' = [cpc EXCEPT ![c] = "closed"]
    /\ UNCHANGED <<kind, c_filename, c_file_size, received, result, c_files>>
    /\ UNCHANGED <<c2s, s2c, srv_closed>>
    /\ UNCHANGED <<srvVars, hVars, ghostVars>>
    /\ UNCHANGED timeVars
    /\ UNCHANGED accept_errors

\* ---------------------------------------------------------------- time
MaxTime == 2            \* how far the model lets the clock run

\* time passes between two readings of time.time()
Tick ==
    /\ now < MaxTime
    /\ now' = now + 1
    /\ UNCHANGED <<sTimeVars, cTimeVars>>
    /\ UNCHANGED <<srvVars, hVars, sockVars, cliVars, ghostVars>>
    /\ UNCHANGED accept_errors

\* ------------------------------------------------------- the specification
\* One connection, served to every peer and every request of the workload,
\* under either root, with shutdown and process exit.
Next ==
    \/ \E c \in Conns : AcceptLoad(c)
    \/ AcceptStore
    \/ Stop
    \/ AcceptExit
    \/ ProcessExit
    \/ \E c \in Conns : HandleRequest(c)
    \/ \E c \in Conns : RecvReady(c)
    \/ \E c \in Conns : RecvTimeout(c)
    \/ \E c \in Conns : StreamChunk(c)
    \/ \E c \in Conns : SendTimeout(c)
    \/ \E c \in Conns : StreamReadError(c)
    \/ \E c \in Conns : HandlerClose(c)
    \/ \E c \in Conns : HandlerDecStore(c)
    \/ \E name \in FileNames : ClientGetStart(1, name)
    \/ \E c \in Conns : ClientGetResponse(c)
    \/ \E c \in Conns : ClientRecvChunk(c)
    \/ \E c \in Conns : ClientRecvEof(c)
    \/ ClientListStart(1)
    \/ \E c \in Conns : ClientListResponse(c)
    \/ RawConnect(1)
    \/ \E c \in Conns, m \in RawRequests \cup RawReplies : RawSend(c, m)
    \/ \E c \in Conns : RawClose(c)
    \/ Tick

Spec == Init /\ [][Next]_vars

\* what the thread of handler c does next: each of its socket operations
\* either completes or is ended by the timeout of line 76
HandlerStep(c) ==
    \/ HandleRequest(c)
    \/ RecvReady(c)
    \/ RecvTimeout(c)
    \/ StreamChunk(c)
    \/ SendTimeout(c)
    \/ HandlerClose(c)
    \/ HandlerDecStore(c)

\* The same program with every handler thread scheduled for as long as the
\* process lives; the peers, the clock and the shutdown owe nothing.
\* the thread of handler c has a step to take: a read has data, an end of
\* stream or a running timeout; a chunk send completes or times out; the
\* cleanup never waits
CanStep(c) ==
    \/ /\ pc[c] \in {"recv_request", "await_ready"}
       /\ Len(c2s[c]) > 0 \/ cli_closed[c] \/ TimedRecv(pc[c])
    \/ pc[c] \in {"streaming", "finally", "dec_store"}

\* weak fairness of the handler thread, with its enabling condition spelled
\* out
HandlerFair(c) == []<>(~CanStep(c)) \/ []<><<HandlerStep(c)>>_vars

SpecLive == Init /\ [][Next]_vars /\ \A c \in Conns : HandlerFair(c)

\* The List operation over served roots of every kind: two files next to a
\* subdirectory, one file, one file next to an empty subdirectory, and no
\* entry at all.  Every connection is a client.py list_files.
ListRoots ==
    { SLASH \o N_s,
      SLASH \o N_s \o SLASH \o N_d,
      SLASH \o N_s2,
      SLASH \o N_s2 \o SLASH \o N_m }

InitList == InitIn(ListRoots)

NextList ==
    \/ \E c \in Conns : AcceptLoad(c)
    \/ AcceptStore
    \/ \E c \in Conns : HandleRequest(c)
    \/ \E c \in Conns : HandlerClose(c)
    \/ \E c \in Conns : HandlerDecStore(c)
    \/ \E c \in Conns : ClientListStart(c)
    \/ \E c \in Conns : ClientListResponse(c)

SpecList == InitList /\ [][NextList]_vars

\* Several connections at a time, each a client.py download, with the
\* interleavings of the accept loop and the handler threads.  No read or send
\* fails and the server keeps running, so no stream ends early.
ConcNames == { N_a, N_z }

InitConc == Init /\ directory = <<"/", "s">>

NextConc ==
    \/ \E c \in Conns : AcceptLoad(c)
    \/ AcceptStore
    \/ \E c \in Conns : HandleRequest(c)
    \/ \E c \in Conns : RecvReady(c)
    \/ \E c \in Conns : StreamChunk(c)
    \/ \E c \in Conns : HandlerClose(c)
    \/ \E c \in Conns : HandlerDecStore(c)
    \/ \E c \in Conns, name \in ConcNames : ClientGetStart(c, name)
    \/ \E c \in Conns : ClientGetResponse(c)
    \/ \E c \in Conns : ClientRecvChunk(c)

SpecConc == InitConc /\ [][NextConc]_vars

\* The accept loop with its failures and the shutdown: every connection is a
\* client.py download of the empty file b; accept may fail while the server runs,
\* stop() may be called at any time and the process ends after start()
\* returned.  Only the accept loop is assumed to be scheduled: a handler or
\* a client may stall for ever.
NextAccept ==
    \/ \E c \in Conns : AcceptLoad(c)
    \/ AcceptStore
    \/ AcceptError
    \/ Stop
    \/ AcceptExit
    \/ ProcessExit
    \/ \E c \in Conns : HandleRequest(c)
    \/ \E c \in Conns : RecvReady(c)
    \/ \E c \in Conns : StreamChunk(c)
    \/ \E c \in Conns : HandlerClose(c)
    \/ \E c \in Conns : HandlerDecStore(c)
    \/ \E c \in Conns : ClientGetStart(c, N_b)
    \/ \E c \in Conns : ClientGetResponse(c)

SpecAccept ==
    /\ InitConc /\ [][NextAccept]_vars
    /\ WF_vars(\E c \in Conns : AcceptLoad(c))
    /\ WF_vars(AcceptStore)
    /\ WF_vars(AcceptExit)

\* One connection that fails next to downloads that do not: connection 1 is
\* a client.py download of a missing name or of a name outside the root, or
\* a raw peer that sends an unknown command, asks for the file a whose read
\* may raise, or leaves in the middle of its download; every later
\* connection is a client.py download of the file d/e.
HealthyName == N_d \o SLASH \o N_e

FailNames == { N_z, SLASH \o N_p }

RawFailing == { JUNK, S_GET \o N_a, S_READY }

NextIsolate ==
    \/ \E c \in Conns : AcceptLoad(c)
    \/ AcceptStore
    \/ \E c \in Conns : HandleRequest(c)
    \/ \E c \in Conns : RecvReady(c)
    \/ \E c \in Conns : StreamChunk(c)
    \/ StreamReadError(1)
    \/ \E c \in Conns : HandlerClose(c)
    \/ \E c \in Conns : HandlerDecStore(c)
    \/ \E name \in FailNames : ClientGetStart(1, name)
    \/ \E c \in Conns \ {1} : ClientGetStart(c, HealthyName)
    \/ \E c \in Conns : ClientGetResponse(c)
    \/ \E c \in Conns : ClientRecvChunk(c)
    \/ RawConnect(1)
    \/ \E m \in RawFailing : RawSend(1, m)
    \/ RawClose(1)

SpecIsolate == InitConc /\ [][NextIsolate]_vars

\* ---------------------------------------------------------------- claims
IsPrefix(s, t) == Len(s) =< Len(t) /\ SubSeq(t, 1, Len(s)) = s

\* the node a path denotes once "." and ".." are resolved, whether or not it
\* exists
RECURSIVE Canon(_, _)
Canon(comps, cur) ==
    IF Len(comps) = 0 THEN cur
    ELSE LET c == Head(comps)
         IN IF c = <<>> \/ c = DOT THEN Canon(Tail(comps), cur)
            ELSE IF c = DOTDOT
                 THEN Canon(Tail(comps),
                            IF Len(cur) = 0 THEN cur ELSE SubSeq(cur, 1, Len(cur) - 1))
            ELSE Canon(Tail(comps), Append(cur, c))

AbsNode(path) == Canon(Split(path, "/"), IF StartsWith(path, SLASH) THEN <<>> ELSE Cwd)

\* the path lies in the served root: component by component, not by characters
InsideRoot(path) == IsPrefix(AbsNode(directory), AbsNode(path))

\* the handler has read its request; the request is a GET; the name it asks for
Handled(c) == request[c] # NotRead

IsGet(c) == Handled(c) /\ Decodes(request[c]) /\ StartsWith(request[c], S_GET)

ReqPath(c) == PathJoin(directory, Drop(request[c], 4))

\* the handler is past its first response
Answered(c) == pc[c] \in {"await_ready", "streaming", "finally", "dec_store", "done"}

\* what the handler sent after its first message
Payload(c) == IF Len(sent[c]) = 0 THEN <<>> ELSE Join(Tail(sent[c]), <<>>)

\* the client of connection c got SIZE and answered READY
GotSize(c) ==
    kind[c] = "get" /\ cpc[c] \in {"receiving", "done"} /\ result[c] # "False"

\* the name denotes a regular file under the served root
DenotesFile(name) ==
    /\ Lookup(PathJoin(directory, name)) \in Files
    /\ InsideRoot(PathJoin(directory, name))

\* C1: a client that asks for a regular file under the root, gets SIZE and
\* answers READY is announced the file's length; what it receives is a prefix
\* of the file while the handler runs without failure, the handler sends
\* exactly the file's bytes and closes, and the client then holds the file.
C1_GetDeliversFile ==
    \A c \in Conns :
        GotSize(c) /\ DenotesFile(c_filename[c]) =>
            LET data == Content(Lookup(PathJoin(directory, c_filename[c])))
            IN /\ c_file_size[c] = Len(data)
               /\ raised[c] = "none" => IsPrefix(received[c], data)
               /\ pc[c] = "done" /\ raised[c] = "none" =>
                      Payload(c) = data /\ srv_closed[c]
               /\ pc[c] = "done" /\ raised[c] = "none" /\ cpc[c] = "done" =>
                      received[c] = data

C1_Witness ==
    \E c \in Conns :
        /\ GotSize(c) /\ c_filename[c] = N_a /\ DenotesFile(N_a)
        /\ pc[c] = "done" /\ cpc[c] = "done" /\ raised[c] = "none"
        /\ received[c] = <<"x", "y", "z">>

\* C2: a GET whose joined and canonicalized path lies outside the served root
\* is answered with ERROR:Access denied and nothing else is ever sent.
C2_OutsideRootDenied ==
    \A c \in Conns :
        IsGet(c) /\ ~InsideRoot(ReqPath(c)) =>
            \A i \in 1..Len(sent[c]) : sent[c][i] = ERR_DENIED

\* C3: a GET for a name inside the served root that does not exist is
\* answered with ERROR:File not found and nothing else.
C3_MissingIsNotFound ==
    \A c \in Conns :
        /\ IsGet(c) /\ Answered(c) /\ raised[c] = "none"
        /\ InsideRoot(ReqPath(c)) /\ ~PathExists(ReqPath(c))
        => sent[c] = <<ERR_NOTFOUND>> /\ pc[c] \in {"finally", "dec_store", "done"}

\* C4: request_file returns success only when the bytes it received equal the
\* announced size.
C4_NoSuccessOnShortTransfer ==
    \A c \in Conns :
        kind[c] = "get" /\ result[c] = "True" => Len(received[c]) = c_file_size[c]

\* handlers that were started and have not finished
LiveCount == Cardinality({ c \in Conns : pc[c] \notin {"none", "done"} })

\* C5: no update of the active-connection count is lost: whenever no
\* increment or decrement is in progress the count is the number of accepted
\* connections whose handler has not finished, and it is never negative.
C5_CountIsExact ==
    /\ active_connections >= 0
    /\ (acc_pc # "store" /\ \A c \in Conns : pc[c] # "dec_store")
           => active_connections = LiveCount

\* C6: once the handler has read, after SIZE, anything that is not exactly
\* READY, it has sent nothing but the SIZE response, has streamed no byte and
\* is on its way to Closed.
C6_NotReadyEndsSilently ==
    \A c \in Conns :
        response[c] # NotRead /\ response[c] # S_READY =>
            /\ pc[c] \in {"finally", "dec_store", "done", "killed"}
            /\ Len(sent[c]) = 1
            /\ StartsWith(sent[c][1], S_SIZE)
            /\ bytes_sent[c] = 0

C6_Witness ==
    \E c \in Conns :
        /\ response[c] = <<"N", "O">>
        /\ pc[c] = "done"
        /\ sent[c] = << S_SIZE \o <<"3">> >>

\* C7: with several downloads at a time every handler sends, on its own
\* connection, the file's bytes in order from its own position and counter,
\* every client holds a prefix of the file it asked for and the bytes it has
\* yet to read are the rest of what its own handler sent; a finished handler
\* has sent the whole file and a finished client holds it.
C7_ConcurrentGetsIndependent ==
    \A c \in Conns :
        response[c] = S_READY =>
            LET data == Content(Lookup(filepath[c]))
            IN /\ file_pos[c] = bytes_sent[c]
               /\ Payload(c) = Take(data, bytes_sent[c])
               /\ IsPrefix(received[c], data)
               /\ cpc[c] = "receiving" => received[c] \o s2c[c] = Payload(c)
               /\ pc[c] = "done" => Payload(c) = data
               /\ cpc[c] = "done" /\ pc[c] = "done" => received[c] = data

C7_Witness ==
    \E c, d \in Conns :
        /\ c # d
        /\ pc[c] = "streaming" /\ pc[d] = "streaming"
        /\ filepath[c] = filepath[d]
        /\ file_pos[c] = 0 /\ file_pos[d] = BufferSize
        /\ Len(received[d]) > 0

\* names that can occur in a listing of the served tree
KnownNames == { N_a, N_b, N_d, N_e, N_k, N_p, N_s, N_s2 }

Occurrences(seq, n) == Cardinality({ i \in DOMAIN seq : seq[i] = n })

\* C8: the answer to LIST is FILES: followed by the comma-joined names of the
\* regular files directly under the served root, each once, and of nothing
\* else.
C8_ListIsRootFiles ==
    \A c \in Conns :
        Handled(c) /\ request[c] = S_LIST /\ Answered(c) /\ raised[c] = "none" =>
            /\ Len(sent[c]) = 1
            /\ StartsWith(sent[c][1], S_FILES)
            /\ LET names == Split(Drop(sent[c][1], 6), ",")
               IN /\ \A i \in DOMAIN names : names[i] \in KnownNames
                  /\ \A n \in KnownNames :
                         Occurrences(names, n) =
                             IF Append(AbsNode(directory), n) \in Files THEN 1 ELSE 0

C8_Witness ==
    \E c \in Conns :
        /\ request[c] = S_LIST
        /\ pc[c] = "done"
        /\ sent[c] = << S_FILES \o <<"b", ",", "a">> >>

\* C9: a handler that has finished has closed its connection and has run the
\* decrement exactly once, so the count of the single accepted connection is
\* back at 0; a handler that has not finished has not run it.
C9_ClosedAndDecrementedOnce ==
    \A c \in Conns :
        /\ decrements[c] =< 1
        /\ pc[c] = "done" => decrements[c] = 1 /\ srv_closed[c] /\ active_connections = 0
        /\ pc[c] # "done" => decrements[c] = 0

C9_Witness ==
    \E c \in Conns :
        /\ pc[c] = "done"
        /\ raised[c] = "read"
        /\ decrements[c] = 1
        /\ active_connections = 0

IsFirstResponse(msg) ==
    StartsWith(msg, S_SIZE) \/ StartsWith(msg, S_FILES) \/ StartsWith(msg, S_ERROR)

\* C10: every non-empty request gets a first response SIZE:, FILES: or
\* ERROR: (unless the send itself fails), and a request that is neither LIST
\* nor GET:... gets exactly ERROR:Invalid request.
C10_EveryRequestAnswered ==
    \A c \in Conns :
        Handled(c) /\ Len(request[c]) > 0 /\ Answered(c) /\ raised[c] # "send" =>
            /\ Len(sent[c]) >= 1
            /\ IsFirstResponse(sent[c][1])
            /\ request[c] # S_LIST /\ ~StartsWith(request[c], S_GET) =>
                   sent[c] = <<ERR_INVALID>>

\* C11: the byte counters never exceed the announced size: the handler's
\* bytes_sent is at most the size of its SIZE response, a transfer that ran to
\* its end wrote exactly that many bytes after READY, and the client's
\* bytes_received is at most the size it was announced.
C11_CountersWithinSize ==
    \A c \in Conns :
        /\ bytes_sent[c] =< file_size[c]
        /\ response[c] = S_READY /\ raised[c] = "none" /\ pc[c] = "done" =>
               Len(Payload(c)) = file_size[c]
        /\ GotSize(c) => Len(received[c]) =< c_file_size[c]

\* ---------------------------------------------------------------- C12
RateIs(rate, size, dur) ==
    IF dur = 0 THEN rate = ZeroRate
    ELSE rate.den # 0 /\ rate.num * (1024 * 1024) * dur = size * rate.den

\* C12: the transfer rate is computed only after the streaming loop has
\* ended (server: the read loop reached end of file without an exception;
\* client: the receive loop was left); for a measured duration of 0 it is
\* exactly 0 with no division, for a duration above 0 it is
\* size / 2^20 / duration, on the server and on the client.
C12_RateAfterLoopAndGuarded ==
    \A c \in Conns :
        /\ transfer_rate[c] # NoRate =>
               /\ pc[c] \in {"finally", "dec_store", "done", "killed"}
               /\ raised[c] = "none" /\ bytes_sent[c] = file_size[c]
               /\ duration[c] >= 0
               /\ RateIs(transfer_rate[c], file_size[c], duration[c])
        /\ c_transfer_rate[c] # NoRate =>
               /\ cpc[c] = "done"
               /\ c_duration[c] >= 0
               /\ RateIs(c_transfer_rate[c], c_file_size[c], c_duration[c])

\* a non-empty download that the client measured at duration 0 and the
\* server at a duration above 0
C12_Witness ==
    \E c \in Conns :
        /\ transfer_rate[c] # NoRate /\ duration[c] > 0 /\ file_size[c] > 0
        /\ c_transfer_rate[c] = ZeroRate /\ c_duration[c] = 0

\* ---------------------------------------------------------------- C13..C15
\* C13: a GET for a name that resolves inside the served root to something
\* that exists but is not a regular file (a subdirectory, or the root itself
\* for the empty name) is answered with ERROR:File not found, and no SIZE
\* response is ever sent for it.
C13_NonFileIsNotFound ==
    \A c \in Conns :
        /\ IsGet(c) /\ Answered(c) /\ raised[c] = "none"
        /\ InsideRoot(ReqPath(c)) /\ PathExists(ReqPath(c))
        /\ Lookup(ReqPath(c)) \notin Files
        => /\ sent[c] = <<ERR_NOTFOUND>>
           /\ \A i \in 1..Len(sent[c]) : ~StartsWith(sent[c][i], S_SIZE)

\* the requested name is a plain file name directly under the served root
PlainFileName(name) ==
    /\ Len(name) > 0 /\ \A i \in 1..Len(name) : name[i] # "/"
    /\ name # DOT /\ name # DOTDOT
    /\ Lookup(PathJoin(directory, name)) \in Files

\* C14: the path check never denies a plain file name directly under the
\* served root, whatever the configured root ('.' included): the joined and
\* normalized path passes the prefix check and the handler's first response
\* is SIZE, not ERROR:Access denied.
C14_InsideRootNeverDenied ==
    \A c \in Conns :
        IsGet(c) /\ PlainFileName(Drop(request[c], 4)) =>
            /\ PathAllowed(directory, Drop(request[c], 4))
            /\ \A i \in 1..Len(sent[c]) : sent[c][i] # ERR_DENIED
            /\ Answered(c) /\ raised[c] = "none" => StartsWith(sent[c][1], S_SIZE)

\* C15: when the first read returns zero bytes or the receive timeout fires
\* in AwaitingRequest, the handler closes without sending any message.
C15_VanishedClientGetsNothing ==
    \A c \in Conns :
        (request[c] = <<>> \/ (request[c] = NotRead /\ raised[c] = "timeout")) =>
            sent[c] = <<>>

\* ---------------------------------------------------------------- C16
\* position of a handler state in the order
\* AwaitingRequest -> AwaitingReady -> Streaming -> Closed
Rank(state) ==
    CASE state = "none" -> 0
      [] state = "recv_request" -> 1
      [] state = "await_ready" -> 2
      [] state = "streaming" -> 3
      [] state = "finally" -> 4
      [] state = "dec_store" -> 5
      [] state = "done" -> 6
      [] state = "killed" -> 7

\* the order of what has been sent and read so far on every connection
HandshakeOrder ==
    \A c \in Conns :
        /\ pc[c] \in {"none", "recv_request"} =>
               response[c] = NotRead /\ sent[c] = <<>>
        /\ Answered(c) /\ raised[c] # "timeout" => Handled(c)
        /\ response[c] # NotRead =>
               /\ IsGet(c)
               /\ Len(sent[c]) >= 1 /\ StartsWith(sent[c][1], S_SIZE)
        /\ Len(sent[c]) >= 2 => StartsWith(sent[c][1], S_SIZE)
        /\ \A i \in 2..Len(sent[c]) : sent[c][i] # ERR_EXC => response[c] = S_READY
        /\ bytes_sent[c] > 0 => response[c] = S_READY
        /\ pc[c] = "streaming" => response[c] = S_READY

\* what one step may do to the handshake
HandshakeStep ==
    \A c \in Conns :
        /\ Rank(pc'[c]) >= Rank(pc[c])
        /\ pc'[c] = "recv_request" => pc[c] \in {"none", "recv_request"}
        /\ request[c] # NotRead => request'[c] = request[c]
        /\ response[c] # NotRead => response'[c] = response[c]
        /\ request'[c] # request[c] => pc[c] = "recv_request"
        /\ response'[c] # response[c] => pc[c] = "await_ready"
        /\ kind[c] = "get" /\ Len(c2s'[c]) > Len(c2s[c]) /\ cpc[c] # "init" =>
               /\ cpc[c] = "wait_size"
               /\ c2s'[c] = c2s[c] \o S_READY
               /\ StartsWith(Take(s2c[c], RecvMax), S_SIZE)
               /\ ~StartsWith(Take(s2c[c], RecvMax), S_ERROR)

\* C16: the order of the handshake is fixed on every connection: the handler
\* reads one request and never a second one; for a GET it sends SIZE before
\* it reads READY and sends payload only after it has read READY; the client
\* sends READY only in answer to a SIZE response, never after ERROR or an
\* unexpected response; a handler never goes back to an earlier state.
C16_HandshakeOrder == []HandshakeOrder /\ [][HandshakeStep]_vars

\* a download whose handshake ran to the end: request, SIZE, READY, payload
C16_Witness ==
    \E c \in Conns :
        /\ pc[c] = "done" /\ response[c] = S_READY /\ Len(sent[c]) >= 2
        /\ kind[c] = "get" /\ cpc[c] = "done" /\ result[c] = "True"

\* ---------------------------------------------------------------- C17
\* the handler of connection c failed while streaming: a read of the file or
\* a send of a chunk raised after READY
FailedStreaming(c) ==
    response[c] = S_READY /\ raised[c] \in {"read", "send", "send_timeout"}

\* what the handler sent before its last message when that is the error text
BeforeError(c) ==
    IF Len(sent[c]) >= 1 /\ sent[c][Len(sent[c])] = ERR_EXC
    THEN SubSeq(sent[c], 1, Len(sent[c]) - 1) ELSE sent[c]

\* after a failure while streaming: the loop is left, what was sent is SIZE,
\* the chunks before the failure and at most one ERROR message, and the ERROR
\* message is there whenever the peer is open and the send did not time out
StoppedAtFirstFailure ==
    \A c \in Conns :
        FailedStreaming(c) =>
            /\ pc[c] \in {"finally", "dec_store", "done", "killed"}
            /\ Len(BeforeError(c)) >= 1
            /\ StartsWith(BeforeError(c)[1], S_SIZE)
            /\ \A i \in 1..Len(BeforeError(c)) : BeforeError(c)[i] # ERR_EXC
            /\ Join(Tail(BeforeError(c)), <<>>) =
                   Take(Content(Lookup(filepath[c])), bytes_sent[c])
            /\ Len(sent[c]) =< Len(BeforeError(c)) + 1
            /\ ~cli_closed[c] /\ raised[c] # "send_timeout" => sent[c] # BeforeError(c)
            /\ raised[c] \in {"send", "send_timeout"} => bytes_sent[c] < file_size[c]

\* after the failure nothing more is read or sent, and the handler only
\* moves on through its cleanup
NothingAfterFailure ==
    \A c \in Conns :
        FailedStreaming(c) =>
            /\ sent'[c] = sent[c] /\ bytes_sent'[c] = bytes_sent[c]
            /\ file_pos'[c] = file_pos[c] /\ raised'[c] = raised[c]
            /\ pc'[c] \in {"finally", "dec_store", "done", "killed"}

\* C17: when a file read or a chunk send fails during Streaming the handler
\* stops at that first failure (the failed chunk is not sent again, no later
\* chunk is sent), makes one attempt to send ERROR:<message> whose own
\* failure is dropped, and goes on to Closed.
C17_StopsAtFirstFailure == []StoppedAtFirstFailure /\ [][NothingAfterFailure]_vars

\* a chunk send failed after an earlier chunk went out, the ERROR attempt
\* failed as well, and the handler still closed
C17_Witness ==
    \E c \in Conns :
        /\ FailedStreaming(c) /\ raised[c] = "send" /\ pc[c] = "done"
        /\ bytes_sent[c] > 0 /\ sent[c] = BeforeError(c)

\* ---------------------------------------------------------------- C18
\* what one step of the accept loop may do
AcceptLoopStep ==
    /\ acc_pc = "accept" /\ acc_pc' = "store" => running /\ listening
    /\ \A c \in Conns :
           pc[c] = "none" /\ pc'[c] # "none" =>
               /\ acc_pc = "store" /\ acc_conn = c /\ pc'[c] = "recv_request"
               /\ acc_pc' = IF running THEN "accept" ELSE "stopped"
    /\ accept_errors' # accept_errors =>
           /\ running /\ running'
           /\ accept_errors' = accept_errors + 1
           /\ acc_pc = "accept" /\ acc_pc' = "accept"
    /\ ~running /\ acc_pc' # acc_pc => acc_pc' \in {"stopped", "exited"}
    /\ acc_pc \in {"stopped", "exited"} => acc_pc' \in {"stopped", "exited"}

\* the accept loop goes on whatever the handlers do: it is never disabled
\* by a handler's state
AcceptLoopNeverWaits ==
    /\ acc_pc = "store" => ENABLED AcceptStore
    /\ acc_pc = "accept" /\ ~listening => ENABLED AcceptExit
    /\ acc_pc = "accept" /\ listening =>
           \A c \in Conns :
               cpc[c] # "init" /\ pc[c] = "none" => \E d \in Conns : ENABLED AcceptLoad(d)

\* C18: the accept loop never waits for a handler: once a connection is
\* handed to its handler thread the loop is back at accept, and with handlers
\* and clients free to stall every pending connection is accepted unless the
\* server is shut down.  While the server runs a failed accept is logged and
\* the loop accepts again; after stop() (running false, listening socket
\* closed) the loop exits without waiting for live handlers and accepts no
\* connection any more.
C18_AcceptLoopIndependent ==
    /\ []AcceptLoopNeverWaits
    /\ [][AcceptLoopStep]_vars
    /\ \A c \in Conns : (cpc[c] # "init" /\ pc[c] = "none") ~> (pc[c] # "none" \/ ~running)
    /\ (~running) ~> (acc_pc \in {"stopped", "exited"})

\* the loop has exited after a logged accept failure while one handler is
\* still at work and another connection was served to its end
C18_Witness ==
    /\ acc_pc = "stopped" /\ accept_errors >= 1
    /\ \E c \in Conns : LiveHandler(c)
    /\ \E c \in Conns : pc[c] = "done"

\* ---------------------------------------------------------------- C19
\* the handler of connection c has failed: an exception was raised in it or
\* it answered with an ERROR message
Failed(c) ==
    \/ raised[c] # "none"
    \/ \E i \in 1..Len(sent[c]) : StartsWith(sent[c][i], S_ERROR)

\* the handler of connection c and its connection, as one value
HandlerState(c) ==
    <<pc[c], request[c], response[c], raised[c], filepath[c], file_size[c],
      file_pos[c], bytes_sent[c], sent[c], c2s[c], s2c[c], srv_closed[c],
      cli_closed[c]>>

\* a step in which the handler of connection c fails, or goes on after it
\* failed, leaves the accept loop and every other handler as they are
FailureIsLocal ==
    \A c \in Conns :
        Failed(c)' /\ (pc'[c] # pc[c] \/ sent'[c] # sent[c] \/ raised'[c] # raised[c]) =>
            /\ running' = running /\ listening' = listening
            /\ acc_pc' = acc_pc /\ acc_conn' = acc_conn
            /\ \A d \in Conns \ {c} : HandlerState(d)' = HandlerState(d)

\* whatever failed elsewhere, the server runs and a download that did not
\* fail itself sends the bytes of its own file and ends with the whole file
OthersComplete ==
    /\ running /\ listening /\ acc_pc \in {"accept", "store"}
    /\ \A d \in Conns :
           IsGet(d) /\ ~Failed(d) =>
               /\ response[d] = S_READY =>
                      LET data == Content(Lookup(filepath[d]))
                      IN /\ file_pos[d] = bytes_sent[d]
                         /\ Payload(d) = Take(data, bytes_sent[d])
                         /\ kind[d] = "get" /\ cpc[d] = "receiving" =>
                                received[d] \o s2c[d] = Payload(d)
                         /\ pc[d] = "done" => Payload(d) = data
                         /\ kind[d] = "get" /\ cpc[d] = "done" /\ pc[d] = "done" =>
                                received[d] = data /\ result[d] = "True"

\* C19: a failure inside one handler (invalid request, not found, access
\* denied, a read or send failure while streaming) ends only that handler:
\* the accept loop and the running flag are untouched, no other handler's
\* state, connection or byte stream changes, and the other downloads still
\* run to the end of their file.
C19_FailureIsolated == []OthersComplete /\ [][FailureIsLocal]_vars

\* one handler failed while streaming and has closed; another download that
\* was under way at the same time has delivered the whole file
C19_Witness ==
    \E c, d \in Conns :
        /\ c # d
        /\ raised[c] \in {"read", "send"} /\ bytes_sent[c] > 0 /\ pc[c] = "done"
        /\ ~Failed(d) /\ pc[d] = "done" /\ cpc[d] = "done"
        /\ received[d] = Content(<<N_s, N_d, N_e>>) /\ result[d] = "True"

\* ---------------------------------------------------------------- C20
\* the bytes of what the client of connection c asked for: the file's content
\* when the name denotes a regular file, nothing otherwise
RequestedBytes(c) ==
    IF Lookup(PathJoin(directory, c_filename[c])) \in Files
    THEN Content(Lookup(PathJoin(directory, c_filename[c])))
    ELSE <<>>

\* C20: every byte the client writes to its destination file during a Get is
\* the byte of the requested file at the same offset; no control message of
\* the server (the ERROR:<message> text sent after a failure that follows
\* SIZE and READY) is ever written as payload.
C20_OnlyFileBytesWritten ==
    \A c \in Conns :
        kind[c] = "get" => IsPrefix(received[c], RequestedBytes(c))

\* ---------------------------------------------------------------- C21
\* the handler of connection c is over: its connection is closed
Closed(c) == srv_closed[c] /\ pc[c] \in {"dec_store", "done", "killed"}

\* C21: the handler of every accepted connection reaches Closed whatever the
\* peer does (sends nothing, sends a request and then nothing, never sends
\* READY, stops reading in mid-stream), given that each of its blocked socket
\* operations completes or is ended by the 60-second timeout; no handler
\* stays for ever in AwaitingRequest, AwaitingReady or Streaming.
C21_HandlerReachesClosed ==
    \A c \in Conns :
        /\ (pc[c] = "recv_request") ~> Closed(c)
        /\ (pc[c] = "await_ready") ~> Closed(c)
        /\ (pc[c] = "streaming") ~> Closed(c)

\* a peer that asked for a file, answered READY and never read: the chunk
\* send timed out and the handler closed the connection the peer still holds
C21_Witness ==
    \E c \in Conns :
        /\ raised[c] = "send_timeout" /\ pc[c] = "done" /\ srv_closed[c]
        /\ ~cli_closed[c] /\ acc_pc = "accept"

\* ---------------------------------------------------------------- C22
\* C22: for a served root whose file names hold no comma and whose FILES
\* response fits in the client's one read, the names the client's List
\* operation parses are the server's file listing: same names, same count,
\* same order; an empty served root gives an empty list of names.
C22_ListRoundTrip ==
    \A c \in Conns :
        kind[c] = "list" /\ result[c] = "listed" =>
            /\ Len(c_files[c]) = Len(ListFiles(directory))
            /\ c_files[c] = ListFiles(directory)

====
